---- MODULE Spec2Model ----
(***************************************************************************)
(* Tradable-liquidity simulation of the whirlpool inspector:               *)
(* getTick, listTradableAmounts (per-step simulator),                      *)
(* listTickArrayTradableAmounts (per-bucket simulator) and the two         *)
(* try/catch blocks of getWhirlpoolInfo that call them.                    *)
(*                                                                         *)
(* One behaviour is one pool report: Init fixes the pool snapshot and the  *)
(* fetched tick arrays, every action is one loop iteration or one          *)
(* straight-line block of the source.                                      *)
(*                                                                         *)
(* Numbers.  BN values are unbounded signed integers in the source; the    *)
(* model keeps them as integers and keeps the inputs small enough for      *)
(* 32-bit evaluation.  Token amounts (Decimal) are carried as their        *)
(* integer number of base units: DecimalUtil.fromBN only moves the decimal *)
(* point by the mint's decimals, so decimalsA / decimalsB are not carried. *)
(* The price column of a record is a function of its tickIndex alone and   *)
(* is not carried either.                                                  *)
(***************************************************************************)
EXTENDS Integers, Sequences, FiniteSets, TLC

\* ------------------------------------------------------------------------
\* Program constants
\* ------------------------------------------------------------------------
TICK_ARRAY_SIZE == 88
MIN_TICK_INDEX == -443636
MAX_TICK_INDEX == 443636
\* the literal 10 of both per-step loops
MaxSteps == 10
\* tick arrays getWhirlpoolInfo asks for on either side of the current one
NEIGHBORING_TICK_ARRAY_NUM == 10

\* ------------------------------------------------------------------------
\* Bounds of the explored inputs
\* ------------------------------------------------------------------------
\* largest number of tick arrays the window holds on either side of the
\* current one
MaxRadius == 2

Min2(a, b) == IF a <= b THEN a ELSE b
Max2(a, b) == IF a >= b THEN a ELSE b
MinOfSet(S) == CHOOSE x \in S : \A y \in S : x <= y

RECURSIVE SumSeq(_)
SumSeq(s) == IF s = << >> THEN 0 ELSE Head(s) + SumSeq(Tail(s))

\* ------------------------------------------------------------------------
\* SDK collaborators, as called by the source
\* ------------------------------------------------------------------------
GetStartTickIndexTruncating(tickIndex, tickSpacing, offset) ==
  ((IF tickIndex >= 0 THEN tickIndex \div (tickSpacing * TICK_ARRAY_SIZE)
    ELSE -((-tickIndex) \div (tickSpacing * TICK_ARRAY_SIZE))) + offset)
     * tickSpacing * TICK_ARRAY_SIZE

\* TickUtil.getStartTickIndex(tickIndex, tickSpacing, offset):
\* floor alignment to tickSpacing * TICK_ARRAY_SIZE, then offset arrays on
GetStartTickIndex(tickIndex, tickSpacing, offset) ==
  ((tickIndex \div (tickSpacing * TICK_ARRAY_SIZE)) + offset)
     * tickSpacing * TICK_ARRAY_SIZE

\* a TickArrayData|null entry: loaded = FALSE is null (no fields readable)
NullTickArray == [loaded |-> FALSE, startTickIndex |-> 0, ticks |-> << >>]

UndefinedTickAsEmpty == [defined |-> TRUE, liquidityNet |-> 0]

\* TickData | undefined
UndefinedTick == [defined |-> FALSE, liquidityNet |-> 0]

\* TickArrayUtil.getTickFromArray: the tick at inner index
\* (tickIndex - startTickIndex) / tickSpacing.  ticks lists only the inner
\* indexes whose liquidityNet is not zero; the others read as zero.
GetTickFromArray(tickarray, tickIndex, tickSpacing) ==
  LET realIndex == (tickIndex - tickarray.startTickIndex) \div tickSpacing
  IN  [defined |-> TRUE,
       liquidityNet |-> IF realIndex \in DOMAIN tickarray.ticks
                        THEN tickarray.ticks[realIndex] ELSE 0]

\* PriceMath.tickIndexToSqrtPriceX64 at reduced width: strictly increasing
\* and positive over [MIN_TICK_INDEX - 3 arrays, MAX_TICK_INDEX + 3 arrays]
TickIndexToSqrtPriceX64(tickIndex) == 500000 + tickIndex

AmountDeltaNeverThrows(currSqrtPrice, targetSqrtPrice, currLiquidity) == FALSE

\* BN asserts a non-negative operand in shln: getAmountDeltaA shifts
\* liquidity * |sqrtPrice difference| and so throws when that is negative
AmountDeltaThrows(currSqrtPrice, targetSqrtPrice, currLiquidity) ==
  LET sqrtPriceLower == Min2(currSqrtPrice, targetSqrtPrice)
      sqrtPriceUpper == Max2(currSqrtPrice, targetSqrtPrice)
  IN  currLiquidity * (sqrtPriceUpper - sqrtPriceLower) < 0

\* quotient, plus one when rounding up and the remainder is not zero
DivRound(numerator, denominator, roundUp) ==
  (numerator \div denominator)
    + (IF roundUp /\ numerator % denominator # 0 THEN 1 ELSE 0)

\* getAmountDeltaA at reduced width: liquidity * diff over the lower price
GetAmountDeltaA(currSqrtPrice, targetSqrtPrice, currLiquidity, roundUp) ==
  LET sqrtPriceLower == Min2(currSqrtPrice, targetSqrtPrice)
      sqrtPriceUpper == Max2(currSqrtPrice, targetSqrtPrice)
  IN  DivRound(currLiquidity * (sqrtPriceUpper - sqrtPriceLower),
               sqrtPriceLower, roundUp)

\* getAmountDeltaB at reduced width: liquidity * diff over the unit price
GetAmountDeltaB(currSqrtPrice, targetSqrtPrice, currLiquidity, roundUp) ==
  LET sqrtPriceLower == Min2(currSqrtPrice, targetSqrtPrice)
      sqrtPriceUpper == Max2(currSqrtPrice, targetSqrtPrice)
  IN  DivRound(currLiquidity * (sqrtPriceUpper - sqrtPriceLower),
               TickIndexToSqrtPriceX64(0), roundUp)

\* PDAUtil.getTickArray(...).publicKey: determined by the start index
GetTickArrayPda(startTickIndex) == <<"tick_array", startTickIndex>>

\* ------------------------------------------------------------------------
\* getTick
\* ------------------------------------------------------------------------
GetTickUnaligned(tickIndex, tickSpacing, tickarrays) ==
  LET matching == {k \in 1..Len(tickarrays) :
                     /\ tickarrays[k].loaded
                     /\ tickarrays[k].startTickIndex = tickIndex}
  IN  IF matching = {} THEN UndefinedTick
      ELSE GetTickFromArray(tickarrays[MinOfSet(matching)], tickIndex, tickSpacing)

GetTick(tickIndex, tickSpacing, tickarrays) ==
  LET startTickIndex == GetStartTickIndex(tickIndex, tickSpacing, 0)
      matching == {k \in 1..Len(tickarrays) :
                     /\ tickarrays[k].loaded
                     /\ tickarrays[k].startTickIndex = startTickIndex}
  IN  IF matching = {} THEN UndefinedTick
      ELSE GetTickFromArray(tickarrays[MinOfSet(matching)], tickIndex, tickSpacing)

\* ------------------------------------------------------------------------
\* State
\* ------------------------------------------------------------------------
VARIABLES
  whirlpool,               \* WhirlpoolData: tickSpacing, tickCurrentIndex, sqrtPrice, liquidity
  tickArrayStartIndexes,   \* window, ascending
  tickArrayPubkeys,        \* parallel to tickArrayStartIndexes
  tickArrays,              \* parallel: fetched TickArrayData or null
  pc,                      \* position in getWhirlpoolInfo and the simulators
  i,                       \* loop counter of the running loop
  tickIndex, sqrtPrice, liquidity,           \* working state of the running loop
  upwardTradableAmount, downwardTradableAmount,   \* listTradableAmounts
  upwardAmountA, upwardAmountB, upwardIndex,      \* listTickArrayTradableAmounts
  downwardAmountA, downwardAmountB, downwardIndex,
  tradableAmounts, tickArrayTradableAmounts       \* getWhirlpoolInfo results

inputs == <<whirlpool, tickArrayStartIndexes, tickArrayPubkeys, tickArrays>>
fetched == <<tickArrayStartIndexes, tickArrayPubkeys, tickArrays>>
working == <<tickIndex, sqrtPrice, liquidity>>
stepLocals == <<upwardTradableAmount, downwardTradableAmount>>
bucketLocals == <<upwardAmountA, upwardAmountB, upwardIndex,
                  downwardAmountA, downwardAmountB, downwardIndex>>
results == <<tradableAmounts, tickArrayTradableAmounts>>
vars == <<inputs, pc, i, working, stepLocals, bucketLocals, results>>

ErrorResultUnflagged == [upward |-> << >>, downward |-> << >>, error |-> FALSE]

\* the value both result variables hold before their try block
ErrorResult == [upward |-> << >>, downward |-> << >>, error |-> TRUE]

\* ------------------------------------------------------------------------
\* Inputs
\* ------------------------------------------------------------------------
TickSpacings == {1, 64}
\* ordinary positions, and positions whose window reaches MIN_TICK_INDEX
\* or MAX_TICK_INDEX
TickCurrentIndexes ==
  {-1, 0, 1000, 1050, 1055, 5430, 5600,
   -443636, -443000, 443000, 443600}
Liquidities == {0, 1000000}

\* which entries of the window were fetched, by position relative to the
\* array holding tickCurrentIndex
LoadPatterns == {"all", "none", "aboveUnknown", "onlyCurrent", "currentUnknown"}
IsLoaded(pattern, rel) ==
  CASE pattern = "all" -> TRUE
    [] pattern = "none" -> FALSE
    [] pattern = "aboveUnknown" -> rel # 1
    [] pattern = "onlyCurrent" -> rel = 0
    [] pattern = "currentUnknown" -> rel # 0

\* window shapes: below arrays under the current one, above arrays over it
WindowShapes ==
  {<<r, r>> : r \in 0..MaxRadius} \cup {<<0, r>> : r \in 0..MaxRadius}
     \cup {<<r, 0>> : r \in 0..MaxRadius}

\* initialized ticks: the steps (in tickSpacing units from the lower
\* initializable tick) that carry liquidityNet = net
NetStepSets == {{1}, {0}, {1, 2}, {-1, 0}, {10}, {-9}}
NetValues == {-1500000, -600000, 600000, 1500000}

LowerInitializable(tickCurrentIndex, tickSpacing) ==
  (tickCurrentIndex \div tickSpacing) * tickSpacing

\* the ticks field of the array starting at startTickIndex
TicksOfArray(startTickIndex, tickSpacing, lowerInit, netSteps, net) ==
  LET inner == {((lowerInit + s * tickSpacing) - startTickIndex) \div tickSpacing :
                   s \in {s \in netSteps :
                            GetStartTickIndex(lowerInit + s * tickSpacing, tickSpacing, 0)
                               = startTickIndex}}
  IN  [k \in inner |-> net]

InTickRangeAboveMin(startTickIndex, ticksInArray) ==
  /\ ~(startTickIndex <= MIN_TICK_INDEX)
  /\ ~(startTickIndex > MAX_TICK_INDEX)

\* if ( startTickIndex+ticksInArray <= MIN_TICK_INDEX ) continue;
\* if ( startTickIndex > MAX_TICK_INDEX ) continue;
InTickRange(startTickIndex, ticksInArray) ==
  /\ ~(startTickIndex + ticksInArray <= MIN_TICK_INDEX)
  /\ ~(startTickIndex > MAX_TICK_INDEX)

\* the offsets of the loop whose start index is pushed (an interval: the
\* two filters drop offsets at the ends only)
KeptOffsets(ts, cur, below, above) ==
  {offset \in (-below)..above :
     InTickRange(GetStartTickIndex(cur, ts, offset), ts * TICK_ARRAY_SIZE)}

InitWith(ts, cur, liq, below, above, pattern, netSteps, net) ==
  LET kept == KeptOffsets(ts, cur, below, above)
      first == MinOfSet(kept)
      n == Cardinality(kept)
      start(k) == GetStartTickIndex(cur, ts, first + k - 1)
      lowerInit == LowerInitializable(cur, ts)
  IN  /\ whirlpool = [tickSpacing |-> ts, tickCurrentIndex |-> cur,
                      sqrtPrice |-> TickIndexToSqrtPriceX64(cur),
                      liquidity |-> liq]
      /\ tickArrayStartIndexes = [k \in 1..n |-> start(k)]
      /\ tickArrayPubkeys = [k \in 1..n |-> GetTickArrayPda(start(k))]
      /\ tickArrays = [k \in 1..n |->
                         IF IsLoaded(pattern, first + k - 1)
                         THEN [loaded |-> TRUE, startTickIndex |-> start(k),
                               ticks |-> TicksOfArray(start(k), ts, lowerInit, netSteps, net)]
                         ELSE NullTickArray]
      /\ pc = "start"
      /\ i = 0
      /\ tickIndex = 0 /\ sqrtPrice = 0 /\ liquidity = 0
      /\ upwardTradableAmount = << >> /\ downwardTradableAmount = << >>
      /\ upwardAmountA = << >> /\ upwardAmountB = << >> /\ upwardIndex = 0
      /\ downwardAmountA = << >> /\ downwardAmountB = << >> /\ downwardIndex = 0
      /\ tradableAmounts = ErrorResult
      /\ tickArrayTradableAmounts = ErrorResult

\* every window shape and load pattern over empty tick arrays, and the
\* initialized-tick layouts over the small windows
Init ==
  \/ \E ts \in TickSpacings, cur \in TickCurrentIndexes, liq \in Liquidities,
        shape \in WindowShapes, pattern \in LoadPatterns :
       InitWith(ts, cur, liq, shape[1], shape[2], pattern, {}, 0)
  \/ \E ts \in TickSpacings, cur \in TickCurrentIndexes,
        r \in 0..1, pattern \in {"all", "aboveUnknown"},
        netSteps \in NetStepSets, net \in NetValues :
       InitWith(ts, cur, 1000000, r, r, pattern, netSteps, net)

\* the pools of Init with liquidity, over the centred windows, and the
\* initialized-tick layouts over the one-array window
FairInit ==
  \/ \E ts \in TickSpacings, cur \in TickCurrentIndexes,
        r \in 0..MaxRadius, pattern \in {"all", "aboveUnknown", "currentUnknown"} :
       InitWith(ts, cur, 1000000, r, r, pattern, {}, 0)
  \/ \E ts \in TickSpacings, cur \in {-1, 0, 1000},
        netSteps \in NetStepSets, net \in NetValues :
       InitWith(ts, cur, 1000000, 0, 0, "all", netSteps, net)

\* the windows getWhirlpoolInfo builds: NEIGHBORING_TICK_ARRAY_NUM arrays
\* asked for on either side.  WideTickSpacing is the spacing of a pool
\* whose arrays are wider than the whole tick range; its liquidity is kept
\* small so that liquidity * price difference stays within 32 bits, and its
\* current tick near 0 so that ten steps stay where the price is positive.
WideTickSpacing == 32896
InfoInit ==
  \/ \E ts \in TickSpacings, cur \in TickCurrentIndexes,
        pattern \in {"all", "aboveUnknown"} :
       InitWith(ts, cur, 1000000, NEIGHBORING_TICK_ARRAY_NUM,
                NEIGHBORING_TICK_ARRAY_NUM, pattern, {}, 0)
  \/ \E cur \in {-1, 0, 1000}, pattern \in {"all", "aboveUnknown"} :
       InitWith(WideTickSpacing, cur, 1000, NEIGHBORING_TICK_ARRAY_NUM,
                NEIGHBORING_TICK_ARRAY_NUM, pattern, {}, 0)
  \/ \E ts \in TickSpacings, cur \in {-1, 0, 1000},
        netSteps \in NetStepSets, net \in NetValues :
       InitWith(ts, cur, 1000000, NEIGHBORING_TICK_ARRAY_NUM,
                NEIGHBORING_TICK_ARRAY_NUM, "all", netSteps, net)

\* ------------------------------------------------------------------------
\* listTradableAmounts
\* ------------------------------------------------------------------------
LowerInitializableTickIndexUnfloored == whirlpool.tickCurrentIndex

LowerInitializableTickIndex ==
  LowerInitializable(whirlpool.tickCurrentIndex, whirlpool.tickSpacing)
UpperInitializableTickIndex == LowerInitializableTickIndex + whirlpool.tickSpacing

\* nextTickIndex of iteration i, before any cap
UpwardCandidate(k) == UpperInitializableTickIndex + k * whirlpool.tickSpacing
DownwardCandidateAscending(k) == LowerInitializableTickIndex + k * whirlpool.tickSpacing
DownwardCandidate(k) == LowerInitializableTickIndex - k * whirlpool.tickSpacing

WithinMaxStepsInclusive(k) == k <= MaxSteps

\* for (let i=0; i<10; i++)
WithinMaxSteps(k) == k < MaxSteps

CapUnknownKeepsCandidate(candidate, nextTick) == candidate

\* if ( nextTick === undefined ) nextTickIndex--;
CapUnknown(candidate, nextTick) ==
  IF nextTick.defined THEN candidate ELSE candidate - 1

NoProgressStrict(nextTickIndex, currentTickIndex) == nextTickIndex < currentTickIndex

\* if ( nextTickIndex <= tickIndex ) break;
NoProgress(nextTickIndex, currentTickIndex) == nextTickIndex <= currentTickIndex

\* the four delta calls of the per-step loops, with their rounding flags
UpwardDeltaA(currSqrtPrice, nextSqrtPrice, currLiquidity) ==
  GetAmountDeltaA(currSqrtPrice, nextSqrtPrice, currLiquidity, FALSE)
UpwardDeltaB(currSqrtPrice, nextSqrtPrice, currLiquidity) ==
  GetAmountDeltaB(currSqrtPrice, nextSqrtPrice, currLiquidity, TRUE)
DownwardDeltaARoundDown(currSqrtPrice, nextSqrtPrice, currLiquidity) ==
  GetAmountDeltaA(currSqrtPrice, nextSqrtPrice, currLiquidity, FALSE)
DownwardDeltaA(currSqrtPrice, nextSqrtPrice, currLiquidity) ==
  GetAmountDeltaA(currSqrtPrice, nextSqrtPrice, currLiquidity, TRUE)
DownwardDeltaB(currSqrtPrice, nextSqrtPrice, currLiquidity) ==
  GetAmountDeltaB(currSqrtPrice, nextSqrtPrice, currLiquidity, FALSE)

\* liquidity.add(nextTick.liquidityNet) / liquidity.sub(nextTick.liquidityNet):
\* BN is signed, neither call throws
CrossUpward(currLiquidity, nextTick) == currLiquidity + nextTick.liquidityNet
CrossDownwardAdding(currLiquidity, nextTick) == currLiquidity + nextTick.liquidityNet
CrossDownward(currLiquidity, nextTick) == currLiquidity - nextTick.liquidityNet

SnapshotAfterCrossInPlace(pool, crossedLiquidity) ==
  [pool EXCEPT !.liquidity = crossedLiquidity]

\* the working liquidity starts as a reference to whirlpool.liquidity
\* (liquidity = whirlpool.liquidity); add and sub build a new BN and leave
\* their receiver, and so the snapshot, as it was
SnapshotAfterCross(pool, crossedLiquidity) == pool

TradableAmountSwapped(nextTickIndex, deltaA, deltaB) ==
  [tickIndex |-> nextTickIndex, amountA |-> deltaB, amountB |-> deltaA]

\* one output record
TradableAmount(nextTickIndex, deltaA, deltaB) ==
  [tickIndex |-> nextTickIndex, amountA |-> deltaA, amountB |-> deltaB]

\* try { listTradableAmounts( ... tickArrays.slice() ...): entry and the
\* upward loop's initial working state
CallListTradableAmounts ==
  /\ pc = "start"
  /\ tickIndex' = whirlpool.tickCurrentIndex
  /\ sqrtPrice' = whirlpool.sqrtPrice
  /\ liquidity' = whirlpool.liquidity
  /\ upwardTradableAmount' = << >>
  /\ i' = 0
  /\ pc' = "ta_up"
  /\ UNCHANGED <<inputs, downwardTradableAmount, bucketLocals, results>>

\* one iteration of the upward loop
UpwardStep ==
  /\ pc = "ta_up"
  /\ LET tickSpacing == whirlpool.tickSpacing
         nextTick == GetTick(UpwardCandidate(i), tickSpacing, tickArrays)
         nextTickIndex == CapUnknown(UpwardCandidate(i), nextTick)
         nextSqrtPrice == TickIndexToSqrtPriceX64(nextTickIndex)
         deltaA == UpwardDeltaA(sqrtPrice, nextSqrtPrice, liquidity)
         deltaB == UpwardDeltaB(sqrtPrice, nextSqrtPrice, liquidity)
     IN  IF NoProgress(nextTickIndex, tickIndex)
         THEN /\ pc' = "ta_up_end"
              /\ UNCHANGED <<i, working, upwardTradableAmount, whirlpool>>
         ELSE IF AmountDeltaThrows(sqrtPrice, nextSqrtPrice, liquidity)
         THEN /\ pc' = "ta_catch"
              /\ UNCHANGED <<i, working, upwardTradableAmount, whirlpool>>
         ELSE /\ upwardTradableAmount' =
                   Append(upwardTradableAmount,
                          TradableAmount(nextTickIndex, deltaA, deltaB))
              /\ IF ~nextTick.defined
                 THEN /\ pc' = "ta_up_end"
                      /\ UNCHANGED <<i, working, whirlpool>>
                 ELSE /\ tickIndex' = nextTickIndex
                      /\ sqrtPrice' = nextSqrtPrice
                      /\ liquidity' = CrossUpward(liquidity, nextTick)
                      /\ whirlpool' = SnapshotAfterCross(whirlpool, liquidity')
                      /\ i' = i + 1
                      /\ pc' = IF WithinMaxSteps(i + 1) THEN "ta_up" ELSE "ta_up_end"
  /\ UNCHANGED <<fetched, downwardTradableAmount, bucketLocals, results>>

\* the downward loop's initial working state
StartDownward ==
  /\ pc = "ta_up_end"
  /\ tickIndex' = whirlpool.tickCurrentIndex
  /\ sqrtPrice' = whirlpool.sqrtPrice
  /\ liquidity' = whirlpool.liquidity
  /\ downwardTradableAmount' = << >>
  /\ i' = 0
  /\ pc' = "ta_down"
  /\ UNCHANGED <<inputs, upwardTradableAmount, bucketLocals, results>>

\* one iteration of the downward loop
DownwardStep ==
  /\ pc = "ta_down"
  /\ LET tickSpacing == whirlpool.tickSpacing
         nextTickIndex == DownwardCandidate(i)
         nextTick == GetTick(nextTickIndex, tickSpacing, tickArrays)
         nextSqrtPrice == TickIndexToSqrtPriceX64(nextTickIndex)
         deltaA == DownwardDeltaA(sqrtPrice, nextSqrtPrice, liquidity)
         deltaB == DownwardDeltaB(sqrtPrice, nextSqrtPrice, liquidity)
     IN  IF ~nextTick.defined
         THEN /\ pc' = "ta_return"
              /\ UNCHANGED <<i, working, downwardTradableAmount, whirlpool>>
         ELSE IF AmountDeltaThrows(sqrtPrice, nextSqrtPrice, liquidity)
         THEN /\ pc' = "ta_catch"
              /\ UNCHANGED <<i, working, downwardTradableAmount, whirlpool>>
         ELSE /\ downwardTradableAmount' =
                   Append(downwardTradableAmount,
                          TradableAmount(nextTickIndex, deltaA, deltaB))
              /\ tickIndex' = nextTickIndex
              /\ sqrtPrice' = nextSqrtPrice
              /\ liquidity' = CrossDownward(liquidity, nextTick)
              /\ whirlpool' = SnapshotAfterCross(whirlpool, liquidity')
              /\ i' = i + 1
              /\ pc' = IF WithinMaxSteps(i + 1) THEN "ta_down" ELSE "ta_return"
  /\ UNCHANGED <<fetched, upwardTradableAmount, bucketLocals, results>>

\* return { upward, downward, error: false }; tradableAmounts = calculated
ReturnTradableAmounts ==
  /\ pc = "ta_return"
  /\ tradableAmounts' = [upward |-> upwardTradableAmount,
                         downward |-> downwardTradableAmount,
                         error |-> FALSE]
  /\ pc' = "tata_call"
  /\ UNCHANGED <<inputs, i, working, stepLocals, bucketLocals, tickArrayTradableAmounts>>

\* catch ( e ) {console.log(e);} : tradableAmounts keeps its initial value
CatchTradableAmounts ==
  /\ pc = "ta_catch"
  /\ pc' = "tata_call"
  /\ UNCHANGED <<inputs, i, working, stepLocals, bucketLocals, results>>

\* ------------------------------------------------------------------------
\* listTickArrayTradableAmounts
\* ------------------------------------------------------------------------
TicksInArray == whirlpool.tickSpacing * TICK_ARRAY_SIZE
CurrentTickArrayStartIndexTruncating ==
  (IF whirlpool.tickCurrentIndex >= 0
   THEN whirlpool.tickCurrentIndex \div TicksInArray
   ELSE -((-whirlpool.tickCurrentIndex) \div TicksInArray)) * TicksInArray

CurrentTickArrayStartIndex ==
  (whirlpool.tickCurrentIndex \div TicksInArray) * TicksInArray
\* 0-based position of the current array in the window (the windows built
\* here are aligned, so the source's division is exact)
CurrentTickArrayIndex ==
  (CurrentTickArrayStartIndex - tickArrayStartIndexes[1]) \div TicksInArray

UpwardLengthShort == Max2(0, Len(tickArrayPubkeys) - CurrentTickArrayIndex - 1)

\* lengths of the two sub-windows built by the push loops
UpwardLength == Max2(0, Len(tickArrayPubkeys) - CurrentTickArrayIndex)
DownwardLength == Max2(0, CurrentTickArrayIndex + 1)

UpwardLastTickIndexUnclamped ==
  CurrentTickArrayStartIndex + UpwardLength * TicksInArray

UpwardLastTickIndex ==
  Min2(MAX_TICK_INDEX, CurrentTickArrayStartIndex + UpwardLength * TicksInArray)
DownwardLastTickIndex ==
  Max2(MIN_TICK_INDEX, CurrentTickArrayStartIndex - (DownwardLength - 1) * TicksInArray)

TickArrayUpwardCandidateStuck(k) == UpperInitializableTickIndex

\* nextTickIndex of iteration i of the two traversals
TickArrayUpwardCandidate(k) == UpperInitializableTickIndex + k * whirlpool.tickSpacing
TickArrayDownwardCandidate(k) == LowerInitializableTickIndex - k * whirlpool.tickSpacing

TickArrayUpwardDeltaARoundUp(currSqrtPrice, nextSqrtPrice, currLiquidity) ==
  GetAmountDeltaA(currSqrtPrice, nextSqrtPrice, currLiquidity, TRUE)

\* the four delta calls of the per-bucket traversals
TickArrayUpwardDeltaA(currSqrtPrice, nextSqrtPrice, currLiquidity) ==
  GetAmountDeltaA(currSqrtPrice, nextSqrtPrice, currLiquidity, FALSE)
TickArrayUpwardDeltaB(currSqrtPrice, nextSqrtPrice, currLiquidity) ==
  GetAmountDeltaB(currSqrtPrice, nextSqrtPrice, currLiquidity, TRUE)
TickArrayDownwardDeltaA(currSqrtPrice, nextSqrtPrice, currLiquidity) ==
  GetAmountDeltaA(currSqrtPrice, nextSqrtPrice, currLiquidity, TRUE)
TickArrayDownwardDeltaB(currSqrtPrice, nextSqrtPrice, currLiquidity) ==
  GetAmountDeltaB(currSqrtPrice, nextSqrtPrice, currLiquidity, FALSE)

\* if ( nextTick !== undefined ) liquidity = liquidity.add / sub (...)
TickArrayCrossUpwardZeroing(currLiquidity, nextTick) ==
  IF nextTick.defined THEN currLiquidity + nextTick.liquidityNet ELSE 0
TickArrayCrossUpward(currLiquidity, nextTick) ==
  IF nextTick.defined THEN currLiquidity + nextTick.liquidityNet ELSE currLiquidity
TickArrayCrossDownward(currLiquidity, nextTick) ==
  IF nextTick.defined THEN currLiquidity - nextTick.liquidityNet ELSE currLiquidity

AdvanceIndexNever(index, nextTickIndex) == index

\* if ( nextTickIndex % ticksInArray === 0 ) index++  (JavaScript's
\* remainder is zero, of either sign, exactly for the multiples)
AdvanceIndex(index, nextTickIndex) ==
  IF nextTickIndex % TicksInArray = 0 THEN index + 1 ELSE index

\* one output record of the upward (dir = 1) or downward (dir = -1)
\* sub-window, k counted from 0
TickArrayTradableAmount(dir, k, amountsA, amountsB) ==
  [tickArrayPubkey |-> tickArrayPubkeys[CurrentTickArrayIndex + dir * k + 1],
   tickArrayStartIndex |-> tickArrayStartIndexes[CurrentTickArrayIndex + dir * k + 1],
   tickArrayData |-> tickArrays[CurrentTickArrayIndex + dir * k + 1],
   amountA |-> amountsA[k + 1],
   amountB |-> amountsB[k + 1]]

\* try { listTickArrayTradableAmounts(...): entry, the upward sub-window
\* and the upward traversal's initial working state
CallListTickArrayTradableAmounts ==
  /\ pc = "tata_call"
  /\ upwardAmountA' = [k \in 1..UpwardLength |-> 0]
  /\ upwardAmountB' = [k \in 1..UpwardLength |-> 0]
  /\ upwardIndex' = 0
  /\ tickIndex' = whirlpool.tickCurrentIndex
  /\ sqrtPrice' = whirlpool.sqrtPrice
  /\ liquidity' = whirlpool.liquidity
  /\ i' = 0
  /\ pc' = "tata_up"
  /\ UNCHANGED <<inputs, stepLocals, downwardAmountA, downwardAmountB,
                 downwardIndex, results>>

\* one iteration of the upward traversal; adding to an accumulator slot
\* that does not exist is a TypeError
TickArrayUpwardStep ==
  /\ pc = "tata_up"
  /\ LET tickSpacing == whirlpool.tickSpacing
         nextTickIndex == TickArrayUpwardCandidate(i)
         nextSqrtPrice == TickIndexToSqrtPriceX64(nextTickIndex)
         deltaA == TickArrayUpwardDeltaA(sqrtPrice, nextSqrtPrice, liquidity)
         deltaB == TickArrayUpwardDeltaB(sqrtPrice, nextSqrtPrice, liquidity)
         nextTick == GetTick(nextTickIndex, tickSpacing, tickArrays)
     IN  IF nextTickIndex > UpwardLastTickIndex
         THEN /\ pc' = "tata_up_end"
              /\ UNCHANGED <<i, working, upwardAmountA, upwardAmountB, upwardIndex,
                             whirlpool>>
         ELSE IF \/ AmountDeltaThrows(sqrtPrice, nextSqrtPrice, liquidity)
                 \/ upwardIndex + 1 \notin DOMAIN upwardAmountA
         THEN /\ pc' = "tata_catch"
              /\ UNCHANGED <<i, working, upwardAmountA, upwardAmountB, upwardIndex,
                             whirlpool>>
         ELSE /\ upwardAmountA' =
                   [upwardAmountA EXCEPT ![upwardIndex + 1] = @ + deltaA]
              /\ upwardAmountB' =
                   [upwardAmountB EXCEPT ![upwardIndex + 1] = @ + deltaB]
              /\ liquidity' = TickArrayCrossUpward(liquidity, nextTick)
              /\ whirlpool' = IF nextTick.defined
                              THEN SnapshotAfterCross(whirlpool, liquidity')
                              ELSE whirlpool
              /\ tickIndex' = nextTickIndex
              /\ sqrtPrice' = nextSqrtPrice
              /\ upwardIndex' = AdvanceIndex(upwardIndex, nextTickIndex)
              /\ i' = i + 1
              /\ pc' = "tata_up"
  /\ UNCHANGED <<fetched, stepLocals, downwardAmountA, downwardAmountB,
                 downwardIndex, results>>

\* the downward sub-window and the downward traversal's initial working state
StartTickArrayDownward ==
  /\ pc = "tata_up_end"
  /\ downwardAmountA' = [k \in 1..DownwardLength |-> 0]
  /\ downwardAmountB' = [k \in 1..DownwardLength |-> 0]
  /\ downwardIndex' = 0
  /\ tickIndex' = whirlpool.tickCurrentIndex
  /\ sqrtPrice' = whirlpool.sqrtPrice
  /\ liquidity' = whirlpool.liquidity
  /\ i' = 0
  /\ pc' = "tata_down"
  /\ UNCHANGED <<inputs, stepLocals, upwardAmountA, upwardAmountB,
                 upwardIndex, results>>

\* one iteration of the downward traversal
TickArrayDownwardStep ==
  /\ pc = "tata_down"
  /\ LET tickSpacing == whirlpool.tickSpacing
         nextTickIndex == TickArrayDownwardCandidate(i)
         nextSqrtPrice == TickIndexToSqrtPriceX64(nextTickIndex)
         deltaA == TickArrayDownwardDeltaA(sqrtPrice, nextSqrtPrice, liquidity)
         deltaB == TickArrayDownwardDeltaB(sqrtPrice, nextSqrtPrice, liquidity)
         nextTick == GetTick(nextTickIndex, tickSpacing, tickArrays)
     IN  IF nextTickIndex < DownwardLastTickIndex
         THEN /\ pc' = "tata_return"
              /\ UNCHANGED <<i, working, downwardAmountA, downwardAmountB, downwardIndex,
                             whirlpool>>
         ELSE IF \/ AmountDeltaThrows(sqrtPrice, nextSqrtPrice, liquidity)
                 \/ downwardIndex + 1 \notin DOMAIN downwardAmountA
         THEN /\ pc' = "tata_catch"
              /\ UNCHANGED <<i, working, downwardAmountA, downwardAmountB, downwardIndex,
                             whirlpool>>
         ELSE /\ downwardAmountA' =
                   [downwardAmountA EXCEPT ![downwardIndex + 1] = @ + deltaA]
              /\ downwardAmountB' =
                   [downwardAmountB EXCEPT ![downwardIndex + 1] = @ + deltaB]
              /\ liquidity' = TickArrayCrossDownward(liquidity, nextTick)
              /\ whirlpool' = IF nextTick.defined
                              THEN SnapshotAfterCross(whirlpool, liquidity')
                              ELSE whirlpool
              /\ tickIndex' = nextTickIndex
              /\ sqrtPrice' = nextSqrtPrice
              /\ downwardIndex' = AdvanceIndex(downwardIndex, nextTickIndex)
              /\ i' = i + 1
              /\ pc' = "tata_down"
  /\ UNCHANGED <<fetched, stepLocals, upwardAmountA, upwardAmountB,
                 upwardIndex, results>>

\* the two output loops, return { upward, downward, error: false };
\* tickArrayTradableAmounts = calculated
ReturnTickArrayTradableAmounts ==
  /\ pc = "tata_return"
  /\ tickArrayTradableAmounts' =
       [upward |-> [k \in 1..UpwardLength |->
                      TickArrayTradableAmount(1, k - 1, upwardAmountA, upwardAmountB)],
        downward |-> [k \in 1..DownwardLength |->
                      TickArrayTradableAmount(-1, k - 1, downwardAmountA, downwardAmountB)],
        error |-> FALSE]
  /\ pc' = "done"
  /\ UNCHANGED <<inputs, i, working, stepLocals, bucketLocals, tradableAmounts>>

\* catch ( e ) {console.log(e);} : tickArrayTradableAmounts keeps its
\* initial value
CatchTickArrayTradableAmounts ==
  /\ pc = "tata_catch"
  /\ pc' = "done"
  /\ UNCHANGED <<inputs, i, working, stepLocals, bucketLocals, results>>

Next ==
  \/ CallListTradableAmounts
  \/ UpwardStep
  \/ StartDownward
  \/ DownwardStep
  \/ ReturnTradableAmounts
  \/ CatchTradableAmounts
  \/ CallListTickArrayTradableAmounts
  \/ TickArrayUpwardStep
  \/ StartTickArrayDownward
  \/ TickArrayDownwardStep
  \/ ReturnTickArrayTradableAmounts
  \/ CatchTickArrayTradableAmounts

Spec == Init /\ [][Next]_vars

\* getWhirlpoolInfo runs both simulators synchronously on one thread: a
\* step that can be taken is taken
FairSpec == FairInit /\ [][Next]_vars /\ WF_vars(Next)

\* the simulators over the windows getWhirlpoolInfo builds
InfoSpec == InfoInit /\ [][Next]_vars

\* ------------------------------------------------------------------------
\* Properties
\* ------------------------------------------------------------------------
Range(s) == {s[k] : k \in 1..Len(s)}

\* listTradableAmounts has finished, by return or by exception
TaFinished ==
  pc \in {"tata_call", "tata_up", "tata_up_end", "tata_down", "tata_return",
          "tata_catch", "done"}

NoneLoaded == \A k \in 1..Len(tickArrays) : ~tickArrays[k].loaded

\* C1 as stated: with no tick array loaded the per-step simulator returns
\* zero records upward and zero records downward.
C1_ZeroRecordsBothDirections ==
  (NoneLoaded /\ TaFinished) =>
     /\ tradableAmounts.upward = << >>
     /\ tradableAmounts.downward = << >>

\* C1 amended: with no tick array loaded the per-step simulator returns
\* normally with zero records downward; upward it returns no record when
\* tickCurrentIndex is the tick just under the upper initializable tick, and
\* otherwise exactly one capped record ending at the upper initializable
\* tick minus one, priced with the pool's liquidity.
C1_NoneLoadedOneCappedRecord ==
  (NoneLoaded /\ TaFinished) =>
     /\ tradableAmounts.error = FALSE
     /\ tradableAmounts.downward = << >>
     /\ tradableAmounts.upward =
          IF UpperInitializableTickIndex - 1 > whirlpool.tickCurrentIndex
          THEN << [tickIndex |-> UpperInitializableTickIndex - 1,
                   amountA |-> GetAmountDeltaA(whirlpool.sqrtPrice,
                                 TickIndexToSqrtPriceX64(UpperInitializableTickIndex - 1),
                                 whirlpool.liquidity, FALSE),
                   amountB |-> GetAmountDeltaB(whirlpool.sqrtPrice,
                                 TickIndexToSqrtPriceX64(UpperInitializableTickIndex - 1),
                                 whirlpool.liquidity, TRUE)] >>
          ELSE << >>

C1_Witness ==
  /\ NoneLoaded
  /\ pc = "done"
  /\ Len(tradableAmounts.upward) = 1
  /\ whirlpool.liquidity > 0

\* the window of the concrete scenario: tickSpacing 64, tickCurrentIndex
\* 1000, liquidity 1000000, two arrays on either side of the current one,
\* no initialized tick, only the array right above the current one missing
ScenarioAboveUnknown ==
  /\ whirlpool.tickSpacing = 64
  /\ whirlpool.tickCurrentIndex = 1000
  /\ whirlpool.liquidity = 1000000
  /\ tickArrayStartIndexes = <<-11264, -5632, 0, 5632, 11264>>
  /\ \A k \in 1..5 : /\ tickArrays[k].loaded <=> (k # 4)
                     /\ tickArrays[k].ticks = << >>

\* C2 as stated: in that scenario the upward output is exactly one capped
\* record at the array boundary minus one, the downward output has 10
\* records.
C2_OneCappedUpwardRecord ==
  (ScenarioAboveUnknown /\ TaFinished) =>
     /\ Len(tradableAmounts.upward) = 1
     /\ tradableAmounts.upward[1].tickIndex = 5632 - 1
     /\ Len(tradableAmounts.downward) = 10

\* C2 amended: in that scenario the ten upward candidates 1024 .. 1600 all
\* lie in the current array [0, 5632), so the upward output is ten full
\* records at 1024 + 64 k and no capped record; the downward output has 10
\* records.
C2_TenUpwardRecords ==
  (ScenarioAboveUnknown /\ TaFinished) =>
     /\ tradableAmounts.error = FALSE
     /\ Len(tradableAmounts.upward) = 10
     /\ \A k \in 1..10 : tradableAmounts.upward[k].tickIndex = 1024 + (k - 1) * 64
     /\ Len(tradableAmounts.downward) = 10

C2_Witness ==
  /\ ScenarioAboveUnknown
  /\ pc = "done"
  /\ Len(tradableAmounts.upward) = 10
  /\ tradableAmounts.upward[10].tickIndex = 1600

\* C3: every record either simulator builds or returns, in both directions,
\* has amountA >= 0 and amountB >= 0.
C3_AmountsNonNegative ==
  /\ \A r \in Range(upwardTradableAmount) \cup Range(downwardTradableAmount)
               \cup Range(tradableAmounts.upward) \cup Range(tradableAmounts.downward) :
        r.amountA >= 0 /\ r.amountB >= 0
  /\ \A r \in Range(tickArrayTradableAmounts.upward)
               \cup Range(tickArrayTradableAmounts.downward) :
        r.amountA >= 0 /\ r.amountB >= 0
  /\ \A a \in Range(upwardAmountA) \cup Range(upwardAmountB)
               \cup Range(downwardAmountA) \cup Range(downwardAmountB) : a >= 0

C3_Witness ==
  /\ pc = "done"
  /\ ~tradableAmounts.error
  /\ ~tickArrayTradableAmounts.error
  /\ \E k \in 1..Len(tickArrays) :
        /\ tickArrays[k].loaded
        /\ \E j \in DOMAIN tickArrays[k].ticks : tickArrays[k].ticks[j] < 0
  /\ \E r \in Range(tradableAmounts.upward) : r.amountA > 0 /\ r.amountB > 0
  /\ \E r \in Range(tickArrayTradableAmounts.downward) : r.amountA > 0 /\ r.amountB > 0

\* C4 as stated: an underflow of the working liquidity never passes
\* silently, so no traversal of either simulator completes (reaches the
\* end of its loop without an exception) with a negative working liquidity.
C4_UnderflowRaisesError ==
  (pc \in {"ta_up_end", "ta_return", "tata_up_end", "tata_return"}) => liquidity >= 0

\* a window of one loaded tick array, the current one
SingleKnownWindow == Len(tickArrays) = 1 /\ tickArrays[1].loaded

BothReturned ==
  pc = "done" /\ ~tradableAmounts.error /\ ~tickArrayTradableAmounts.error

\* the end boundary of the current array is one of the ten upward candidates
BoundaryWithinMaxSteps ==
  UpwardCandidate(MaxSteps - 1) >= CurrentTickArrayStartIndex + TicksInArray

StepAmountsA(records) == [k \in 1..Len(records) |-> records[k].amountA]

\* the upward records that end on an initializable tick (not capped)
UncappedUpward ==
  SelectSeq(tradableAmounts.upward,
            LAMBDA r : r.tickIndex % whirlpool.tickSpacing = 0)

\* the end boundary of the current array is a tick the per-bucket traversal
\* may reach (it is not cut short by MAX_TICK_INDEX)
BoundaryInTickRange ==
  CurrentTickArrayStartIndex + TicksInArray <= MAX_TICK_INDEX

\* C5 as stated: for a window of one fully known array whose end boundary
\* is at most 10 steps away (and not above MAX_TICK_INDEX), the sum of
\* amountA over the upward step records equals the amountA of the single
\* upward bucket record.
C5_StepSumEqualsBucket ==
  (SingleKnownWindow /\ BothReturned /\ BoundaryWithinMaxSteps
     /\ BoundaryInTickRange) =>
     SumSeq(StepAmountsA(tradableAmounts.upward))
        = tickArrayTradableAmounts.upward[1].amountA

\* C5 amended: for a window of one fully known array whose end boundary is
\* not above MAX_TICK_INDEX, the sum of amountA over the upward step records
\* is at most the amountA of the single upward bucket record; when the end
\* boundary is within the 10 steps the bucket amount is the sum over the
\* uncapped step records plus the round-down amountDeltaA of the step from
\* the last uncapped tick up to the boundary, which the per-step simulator
\* caps at boundary - 1 or does not emit.
C5_StepSumAtMostBucket ==
  (SingleKnownWindow /\ BothReturned /\ BoundaryInTickRange) =>
     LET uncapped == UncappedUpward
         lastTick == IF uncapped = << >> THEN whirlpool.tickCurrentIndex
                     ELSE uncapped[Len(uncapped)].tickIndex
         lastSqrtPrice == IF uncapped = << >> THEN whirlpool.sqrtPrice
                          ELSE TickIndexToSqrtPriceX64(lastTick)
         crossed == [k \in 1..Len(uncapped) |->
                       GetTick(uncapped[k].tickIndex, whirlpool.tickSpacing,
                               tickArrays).liquidityNet]
         boundary == CurrentTickArrayStartIndex + TicksInArray
     IN  /\ SumSeq(StepAmountsA(tradableAmounts.upward))
              <= tickArrayTradableAmounts.upward[1].amountA
         /\ BoundaryWithinMaxSteps =>
              tickArrayTradableAmounts.upward[1].amountA
                 = SumSeq(StepAmountsA(uncapped))
                   + GetAmountDeltaA(lastSqrtPrice, TickIndexToSqrtPriceX64(boundary),
                                     whirlpool.liquidity + SumSeq(crossed), FALSE)

C5_Witness ==
  /\ SingleKnownWindow
  /\ BothReturned
  /\ BoundaryWithinMaxSteps
  /\ Len(tradableAmounts.upward) >= 3
  /\ tradableAmounts.upward[Len(tradableAmounts.upward)].tickIndex
        = CurrentTickArrayStartIndex + TicksInArray - 1
  /\ SumSeq(StepAmountsA(tradableAmounts.upward))
        < tickArrayTradableAmounts.upward[1].amountA

StrictlyIncreasingTicks(records) ==
  \A k \in 1..(Len(records) - 1) : records[k].tickIndex < records[k + 1].tickIndex
StrictlyDecreasingTicks(records) ==
  \A k \in 1..(Len(records) - 1) : records[k].tickIndex > records[k + 1].tickIndex

\* C6: adjacent records of the per-step simulator are strictly increasing
\* in tickIndex upward (the capped record included) and strictly
\* decreasing downward, in the sequences being built and in those returned.
C6_StrictlyMonotonicTicks ==
  /\ StrictlyIncreasingTicks(upwardTradableAmount)
  /\ StrictlyIncreasingTicks(tradableAmounts.upward)
  /\ StrictlyDecreasingTicks(downwardTradableAmount)
  /\ StrictlyDecreasingTicks(tradableAmounts.downward)

C6_Witness ==
  /\ pc = "done"
  /\ Len(tradableAmounts.upward) >= 2
  /\ tradableAmounts.upward[Len(tradableAmounts.upward)].tickIndex
        % whirlpool.tickSpacing # 0
  /\ Len(tradableAmounts.downward) >= 2

\* C7: the per-step simulator never holds or returns more than MaxSteps
\* records in either direction.
C7_AtMostMaxSteps ==
  /\ Len(upwardTradableAmount) <= MaxSteps
  /\ Len(downwardTradableAmount) <= MaxSteps
  /\ Len(tradableAmounts.upward) <= MaxSteps
  /\ Len(tradableAmounts.downward) <= MaxSteps

C7_Witness ==
  /\ pc = "done"
  /\ Len(tradableAmounts.upward) = MaxSteps
  /\ Len(tradableAmounts.downward) = MaxSteps

AllUpwardCandidatesKnown ==
  \A k \in 0..(MaxSteps - 1) :
     GetTick(UpperInitializableTickIndex + k * whirlpool.tickSpacing,
             whirlpool.tickSpacing, tickArrays).defined
AllDownwardCandidatesKnown ==
  \A k \in 0..(MaxSteps - 1) :
     GetTick(LowerInitializableTickIndex - k * whirlpool.tickSpacing,
             whirlpool.tickSpacing, tickArrays).defined
NoInitializedTick ==
  \A k \in 1..Len(tickArrays) : tickArrays[k].ticks = << >>

\* the square-root price a record's step starts from
StepStartSqrtPrice(records, k) ==
  IF k = 1 THEN whirlpool.sqrtPrice
  ELSE TickIndexToSqrtPriceX64(records[k - 1].tickIndex)

\* C8: when the per-step simulator returns and all ten candidates of a
\* direction lie in loaded arrays, that direction has exactly ten records,
\* the k-th upward one at upperInit + k * tickSpacing and the k-th downward
\* one at lowerInit - k * tickSpacing (k = 0..9); the upward loop alone
\* already ends with its ten records.  If moreover no tick is initialized,
\* every amount is the delta formula applied to the pool's liquidity.
C8_TenRecordsWhenKnown ==
  /\ (pc = "ta_up_end" /\ AllUpwardCandidatesKnown) =>
        /\ Len(upwardTradableAmount) = MaxSteps
        /\ \A k \in 1..MaxSteps :
              upwardTradableAmount[k].tickIndex
                 = UpperInitializableTickIndex + (k - 1) * whirlpool.tickSpacing
  /\ (TaFinished /\ ~tradableAmounts.error /\ AllUpwardCandidatesKnown) =>
        /\ Len(tradableAmounts.upward) = MaxSteps
        /\ \A k \in 1..MaxSteps :
              /\ tradableAmounts.upward[k].tickIndex
                    = UpperInitializableTickIndex + (k - 1) * whirlpool.tickSpacing
              /\ NoInitializedTick =>
                    /\ tradableAmounts.upward[k].amountA
                          = GetAmountDeltaA(StepStartSqrtPrice(tradableAmounts.upward, k),
                               TickIndexToSqrtPriceX64(tradableAmounts.upward[k].tickIndex),
                               whirlpool.liquidity, FALSE)
                    /\ tradableAmounts.upward[k].amountB
                          = GetAmountDeltaB(StepStartSqrtPrice(tradableAmounts.upward, k),
                               TickIndexToSqrtPriceX64(tradableAmounts.upward[k].tickIndex),
                               whirlpool.liquidity, TRUE)
  /\ (TaFinished /\ ~tradableAmounts.error /\ AllDownwardCandidatesKnown) =>
        /\ Len(tradableAmounts.downward) = MaxSteps
        /\ \A k \in 1..MaxSteps :
              /\ tradableAmounts.downward[k].tickIndex
                    = LowerInitializableTickIndex - (k - 1) * whirlpool.tickSpacing
              /\ NoInitializedTick =>
                    /\ tradableAmounts.downward[k].amountA
                          = GetAmountDeltaA(StepStartSqrtPrice(tradableAmounts.downward, k),
                               TickIndexToSqrtPriceX64(tradableAmounts.downward[k].tickIndex),
                               whirlpool.liquidity, TRUE)
                    /\ tradableAmounts.downward[k].amountB
                          = GetAmountDeltaB(StepStartSqrtPrice(tradableAmounts.downward, k),
                               TickIndexToSqrtPriceX64(tradableAmounts.downward[k].tickIndex),
                               whirlpool.liquidity, FALSE)

C8_Witness ==
  /\ pc = "done"
  /\ whirlpool.tickSpacing = 64
  /\ whirlpool.tickCurrentIndex = 1000
  /\ whirlpool.liquidity = 1000000
  /\ Len(tickArrays) = 5
  /\ \A k \in 1..5 : tickArrays[k].loaded
  /\ NoInitializedTick
  /\ Len(tradableAmounts.upward) = 10
  /\ Len(tradableAmounts.downward) = 10
  /\ tradableAmounts.upward[10].amountA > 0
  /\ tradableAmounts.downward[10].amountB > 0

\* 1-based position in the window of the array whose range holds
\* tickCurrentIndex
WindowPositionOfCurrent ==
  CHOOSE k \in 1..Len(tickArrayStartIndexes) :
     /\ tickArrayStartIndexes[k] <= whirlpool.tickCurrentIndex
     /\ whirlpool.tickCurrentIndex
           < tickArrayStartIndexes[k] + whirlpool.tickSpacing * TICK_ARRAY_SIZE

\* C9: when the per-bucket simulator returns, its upward sequence has one
\* record per window entry from the current array to the last, in that
\* order, its downward sequence one per entry from the current array down
\* to the first, in that order, and every record carries the start index,
\* the pubkey and the fetched data (loaded or null) of its window entry.
C9_OneRecordPerBucket ==
  (pc = "done" /\ ~tickArrayTradableAmounts.error) =>
     LET n == Len(tickArrayStartIndexes)
         c == WindowPositionOfCurrent
         up == tickArrayTradableAmounts.upward
         down == tickArrayTradableAmounts.downward
     IN  /\ Len(up) = n - c + 1
         /\ \A j \in 1..Len(up) :
               /\ up[j].tickArrayStartIndex = tickArrayStartIndexes[c + j - 1]
               /\ up[j].tickArrayPubkey = tickArrayPubkeys[c + j - 1]
               /\ up[j].tickArrayData = tickArrays[c + j - 1]
         /\ Len(down) = c
         /\ \A j \in 1..Len(down) :
               /\ down[j].tickArrayStartIndex = tickArrayStartIndexes[c - j + 1]
               /\ down[j].tickArrayPubkey = tickArrayPubkeys[c - j + 1]
               /\ down[j].tickArrayData = tickArrays[c - j + 1]

C9_Witness ==
  /\ pc = "done"
  /\ ~tickArrayTradableAmounts.error
  /\ Len(tickArrays) = 5
  /\ Len(tickArrayTradableAmounts.upward) = 3
  /\ Len(tickArrayTradableAmounts.downward) = 3
  /\ ~tickArrayTradableAmounts.upward[2].tickArrayData.loaded
  /\ tickArrayTradableAmounts.upward[2].amountA > 0
  /\ tickArrayTradableAmounts.downward[3].tickArrayData.loaded

\* C10: an exception inside a simulator is caught: control goes on to the
\* next stage of getWhirlpoolInfo, that simulator's result is the error
\* result (no records, error = TRUE) and the other simulator's result is
\* not touched; a normal return stores error = FALSE; a result variable
\* changes only by its own simulator's return; and whenever error is TRUE
\* both sequences are empty.
C10_ErrorResultOnException ==
  [][ /\ (pc = "ta_catch") =>
            /\ pc' = "tata_call"
            /\ tradableAmounts' = [upward |-> << >>, downward |-> << >>, error |-> TRUE]
            /\ tickArrayTradableAmounts' = tickArrayTradableAmounts
      /\ (pc = "tata_catch") =>
            /\ pc' = "done"
            /\ tickArrayTradableAmounts' = [upward |-> << >>, downward |-> << >>, error |-> TRUE]
            /\ tradableAmounts' = tradableAmounts
      /\ (pc = "ta_return") => (pc' = "tata_call" /\ tradableAmounts'.error = FALSE)
      /\ (pc = "tata_return") => (pc' = "done" /\ tickArrayTradableAmounts'.error = FALSE)
      /\ (tradableAmounts' # tradableAmounts) => pc = "ta_return"
      /\ (tickArrayTradableAmounts' # tickArrayTradableAmounts) => pc = "tata_return"
      /\ tradableAmounts'.error =>
            (tradableAmounts'.upward = << >> /\ tradableAmounts'.downward = << >>)
      /\ tickArrayTradableAmounts'.error =>
            (tickArrayTradableAmounts'.upward = << >>
               /\ tickArrayTradableAmounts'.downward = << >>)
    ]_vars

C10_Witness ==
  /\ pc = "done"
  /\ ~tradableAmounts.error
  /\ Len(tradableAmounts.upward) = MaxSteps
  /\ tickArrayTradableAmounts = [upward |-> << >>, downward |-> << >>, error |-> TRUE]

\* iterations begun so far by the running loop never exceed the loop's
\* bound: i counts the completed iterations, the one that ends the loop
\* included in the "+ 1"
IterationBound ==
  /\ pc \in {"ta_up", "ta_down"} => i < MaxSteps
  /\ pc \in {"ta_up_end", "ta_return"} => i <= MaxSteps
  /\ pc \in {"tata_up", "tata_up_end"} => i + 1 <= UpwardLength * TICK_ARRAY_SIZE + 1
  /\ pc \in {"tata_down", "tata_return"} => i + 1 <= DownwardLength * TICK_ARRAY_SIZE + 1

\* C11: both simulators terminate: the per-step loops run at most 10
\* iterations per direction, each traversal of the per-bucket simulator at
\* most (arrays of its sub-window * TICK_ARRAY_SIZE + 1) iterations, and
\* every run of getWhirlpoolInfo's two try blocks reaches its end.
C11_Terminates == []IterationBound /\ <>(pc = "done")

\* both traversals of the per-bucket simulator ran the largest number of
\* iterations their three-array sub-windows allow
C11_Witness ==
  /\ pc = "tata_return"
  /\ UpwardLength = 3
  /\ i = DownwardLength * TICK_ARRAY_SIZE
  /\ \E k \in 1..3 : upwardAmountA[k] > 0

\* ------------------------------------------------------------------------
\* The outputs written as functions of the inputs (whirlpool, the window
\* and the fetched arrays) alone
\* ------------------------------------------------------------------------
\* the initialized ticks of the fetched arrays, as <<tickIndex, liquidityNet>>
InitializedTicks ==
  UNION {{<<tickArrays[k].startTickIndex + j * whirlpool.tickSpacing,
            tickArrays[k].ticks[j]>> : j \in DOMAIN tickArrays[k].ticks}
           : k \in {k \in 1..Len(tickArrays) : tickArrays[k].loaded}}

RECURSIVE SumNets(_)
SumNets(S) ==
  IF S = {} THEN 0
  ELSE LET x == CHOOSE x \in S : TRUE IN x[2] + SumNets(S \ {x})

\* pool liquidity plus the liquidityNet of the initialized ticks from the
\* upper initializable tick up to, not including, tick t
LiquidityArrivingUp(t) ==
  whirlpool.liquidity
    + SumNets({x \in InitializedTicks :
                 UpperInitializableTickIndex <= x[1] /\ x[1] < t})

\* pool liquidity minus the liquidityNet of the initialized ticks from the
\* lower initializable tick down to, not including, tick t
LiquidityArrivingDown(t) ==
  whirlpool.liquidity
    - SumNets({x \in InitializedTicks :
                 t < x[1] /\ x[1] <= LowerInitializableTickIndex})

Known(t) == GetTick(t, whirlpool.tickSpacing, tickArrays).defined

\* how many leading candidates of a direction lie in loaded arrays
UpwardKnownPrefix ==
  Cardinality({k \in 0..(MaxSteps - 1) :
                 \A j \in 0..k : Known(UpperInitializableTickIndex + j * whirlpool.tickSpacing)})
DownwardKnownPrefix ==
  Cardinality({k \in 0..(MaxSteps - 1) :
                 \A j \in 0..k : Known(LowerInitializableTickIndex - j * whirlpool.tickSpacing)})

\* tick and square-root price from which step k (from 0) of a direction starts
UpStartTick(k) ==
  IF k = 0 THEN whirlpool.tickCurrentIndex
  ELSE UpperInitializableTickIndex + (k - 1) * whirlpool.tickSpacing
UpStartSqrtPrice(k) ==
  IF k = 0 THEN whirlpool.sqrtPrice ELSE TickIndexToSqrtPriceX64(UpStartTick(k))
DownStartSqrtPrice(k) ==
  IF k = 0 THEN whirlpool.sqrtPrice
  ELSE TickIndexToSqrtPriceX64(LowerInitializableTickIndex - (k - 1) * whirlpool.tickSpacing)

\* the ticks at which the upward step records end: the known prefix, then
\* one tick under the first unknown candidate if that is above the start
ExpectedUpwardEnds ==
  LET known == UpwardKnownPrefix
      firstUnknown == UpperInitializableTickIndex + known * whirlpool.tickSpacing
      capped == known < MaxSteps /\ firstUnknown - 1 > UpStartTick(known)
  IN  [k \in 1..(known + (IF capped THEN 1 ELSE 0)) |->
         IF k <= known
         THEN UpperInitializableTickIndex + (k - 1) * whirlpool.tickSpacing
         ELSE firstUnknown - 1]

ExpectedUpward ==
  [k \in 1..Len(ExpectedUpwardEnds) |->
     LET arriving == LiquidityArrivingUp(UpperInitializableTickIndex
                                           + (k - 1) * whirlpool.tickSpacing)
         target == TickIndexToSqrtPriceX64(ExpectedUpwardEnds[k])
     IN  [tickIndex |-> ExpectedUpwardEnds[k],
          amountA |-> GetAmountDeltaA(UpStartSqrtPrice(k - 1), target, arriving, FALSE),
          amountB |-> GetAmountDeltaB(UpStartSqrtPrice(k - 1), target, arriving, TRUE)]]

ExpectedDownward ==
  [k \in 1..DownwardKnownPrefix |->
     LET t == LowerInitializableTickIndex - (k - 1) * whirlpool.tickSpacing
         arriving == LiquidityArrivingDown(t)
         target == TickIndexToSqrtPriceX64(t)
     IN  [tickIndex |-> t,
          amountA |-> GetAmountDeltaA(DownStartSqrtPrice(k - 1), target, arriving, TRUE),
          amountB |-> GetAmountDeltaB(DownStartSqrtPrice(k - 1), target, arriving, FALSE)]]

\* a step of either direction is priced with a negative liquidity
ExpectedStepThrows ==
  \/ \E k \in 1..Len(ExpectedUpwardEnds) :
        /\ ExpectedUpwardEnds[k] > UpStartTick(k - 1)
        /\ LiquidityArrivingUp(UpperInitializableTickIndex
                                 + (k - 1) * whirlpool.tickSpacing) < 0
  \/ \E k \in 1..DownwardKnownPrefix :
        /\ LowerInitializableTickIndex - (k - 1) * whirlpool.tickSpacing
              < (IF k = 1 THEN whirlpool.tickCurrentIndex
                 ELSE LowerInitializableTickIndex - (k - 2) * whirlpool.tickSpacing)
        /\ LiquidityArrivingDown(LowerInitializableTickIndex
                                   - (k - 1) * whirlpool.tickSpacing) < 0

ExpectedTradableAmounts ==
  IF ExpectedStepThrows
  THEN [upward |-> << >>, downward |-> << >>, error |-> TRUE]
  ELSE [upward |-> ExpectedUpward, downward |-> ExpectedDownward, error |-> FALSE]

\* number of candidates each per-bucket traversal prices
UpwardCandidateCount ==
  IF UpperInitializableTickIndex > UpwardLastTickIndex THEN 0
  ELSE (UpwardLastTickIndex - UpperInitializableTickIndex) \div whirlpool.tickSpacing + 1
DownwardCandidateCount ==
  IF LowerInitializableTickIndex < DownwardLastTickIndex THEN 0
  ELSE (LowerInitializableTickIndex - DownwardLastTickIndex) \div whirlpool.tickSpacing + 1

\* position (from 0) in its sub-window of the array to which a candidate's
\* delta belongs: start < t <= start + ticksInArray going up,
\* start <= t < start + ticksInArray going down
UpwardBucketOf(t) == (t - 1 - CurrentTickArrayStartIndex) \div TicksInArray
DownwardBucketOf(t) ==
  (CurrentTickArrayStartIndex + TicksInArray - 1 - t) \div TicksInArray

\* deltas of the per-bucket candidates k = 1 .. count, as <<bucket, A, B>>
ExpectedUpwardDeltas ==
  [k \in 1..UpwardCandidateCount |->
     LET t == UpperInitializableTickIndex + (k - 1) * whirlpool.tickSpacing
         arriving == LiquidityArrivingUp(t)
         target == TickIndexToSqrtPriceX64(t)
     IN  <<UpwardBucketOf(t),
           GetAmountDeltaA(UpStartSqrtPrice(k - 1), target, arriving, FALSE),
           GetAmountDeltaB(UpStartSqrtPrice(k - 1), target, arriving, TRUE),
           arriving < 0 /\ t > UpStartTick(k - 1)>>]
ExpectedDownwardDeltas ==
  [k \in 1..DownwardCandidateCount |->
     LET t == LowerInitializableTickIndex - (k - 1) * whirlpool.tickSpacing
         arriving == LiquidityArrivingDown(t)
         target == TickIndexToSqrtPriceX64(t)
     IN  <<DownwardBucketOf(t),
           GetAmountDeltaA(DownStartSqrtPrice(k - 1), target, arriving, TRUE),
           GetAmountDeltaB(DownStartSqrtPrice(k - 1), target, arriving, FALSE),
           arriving < 0 /\ DownStartSqrtPrice(k - 1) > target>>]

\* sum of component c of the deltas that belong to bucket j
BucketSum(deltas, j, c) ==
  SumSeq([k \in 1..Len(deltas) |-> IF deltas[k][1] = j THEN deltas[k][c] ELSE 0])

ExpectedBucketRecords(dir, length, deltas) ==
  [j \in 1..length |->
     [tickArrayPubkey |-> tickArrayPubkeys[CurrentTickArrayIndex + dir * (j - 1) + 1],
      tickArrayStartIndex |-> tickArrayStartIndexes[CurrentTickArrayIndex + dir * (j - 1) + 1],
      tickArrayData |-> tickArrays[CurrentTickArrayIndex + dir * (j - 1) + 1],
      amountA |-> BucketSum(deltas, j - 1, 2),
      amountB |-> BucketSum(deltas, j - 1, 3)]]

ExpectedTickArrayTradableAmounts ==
  LET up == ExpectedUpwardDeltas
      down == ExpectedDownwardDeltas
  IN  IF (\E k \in 1..Len(up) : up[k][4]) \/ (\E k \in 1..Len(down) : down[k][4])
      THEN [upward |-> << >>, downward |-> << >>, error |-> TRUE]
      ELSE [upward |-> ExpectedBucketRecords(1, UpwardLength, up),
            downward |-> ExpectedBucketRecords(-1, DownwardLength, down),
            error |-> FALSE]

\* C12: no step of either simulator writes the pool snapshot, the window or
\* the fetched arrays, so the later call sees the inputs of the earlier one;
\* and what each simulator leaves in its result variable, by return or by
\* exception, is the value of an expression over those inputs alone, so two
\* invocations on identical inputs give identical outputs.
C12_Deterministic ==
  [][ /\ inputs' = inputs
      /\ (pc \in {"ta_return", "ta_catch"}) =>
            tradableAmounts' = ExpectedTradableAmounts
      /\ (pc \in {"tata_return", "tata_catch"}) =>
            tickArrayTradableAmounts' = ExpectedTickArrayTradableAmounts
    ]_vars

\* both simulators returned after crossing an initialized tick upward, and
\* the snapshot still holds the pool's liquidity
C12_Witness ==
  /\ pc = "done"
  /\ ~tradableAmounts.error
  /\ ~tickArrayTradableAmounts.error
  /\ whirlpool.liquidity = 1000000
  /\ \E x \in InitializedTicks : x[1] >= UpperInitializableTickIndex
  /\ Len(tradableAmounts.upward) = MaxSteps
  /\ Len(tradableAmounts.downward) = MaxSteps
  /\ Len(tickArrayTradableAmounts.upward) >= 2

\* a record that does not end on an initializable tick
IsCapped(record) == record.tickIndex % whirlpool.tickSpacing # 0

\* at most one capped record, in the last place, none with tickSpacing 1
CappedOnlyLast(records) ==
  /\ \A k \in 1..Len(records) : IsCapped(records[k]) => k = Len(records)
  /\ whirlpool.tickSpacing = 1 => \A k \in 1..Len(records) : ~IsCapped(records[k])

\* C13: an upward iteration of the per-step simulator whose candidate is
\* Unknown ends the upward loop: with candidate - 1 not above the working
\* tick it adds no record, otherwise (unless the delta call throws) it adds
\* exactly one record, ending at candidate - 1.  So the upward records hold
\* at most one capped record, it is the last one and the loop has stopped,
\* and with tickSpacing 1 there is none.
C13_UnknownUpwardCap ==
  [][ /\ (pc = "ta_up" /\ ~Known(UpwardCandidate(i))) =>
            IF UpwardCandidate(i) - 1 <= tickIndex
            THEN pc' = "ta_up_end" /\ upwardTradableAmount' = upwardTradableAmount
            ELSE \/ /\ pc' = "ta_up_end"
                    /\ Len(upwardTradableAmount') = Len(upwardTradableAmount) + 1
                    /\ SubSeq(upwardTradableAmount', 1, Len(upwardTradableAmount))
                          = upwardTradableAmount
                    /\ upwardTradableAmount'[Len(upwardTradableAmount')].tickIndex
                          = UpwardCandidate(i) - 1
                 \/ /\ pc' = "ta_catch"
                    /\ liquidity < 0
                    /\ upwardTradableAmount' = upwardTradableAmount
      /\ CappedOnlyLast(upwardTradableAmount')
      /\ CappedOnlyLast(tradableAmounts'.upward)
      /\ (pc' = "ta_up") => \A k \in 1..Len(upwardTradableAmount') :
                               ~IsCapped(upwardTradableAmount'[k])
    ]_vars

\* four full records up to the end of the current array, then the capped
\* record one tick under the boundary of the array that was not fetched
C13_Witness ==
  /\ pc = "done"
  /\ Len(tradableAmounts.upward) = 4
  /\ ~Known(UpwardCandidate(3))
  /\ tradableAmounts.upward[4].tickIndex = UpwardCandidate(3) - 1
  /\ IsCapped(tradableAmounts.upward[4])
  /\ tradableAmounts.upward[4].amountA > 0

\* tick t lies in the range of an array of the window that was fetched
InKnownBucket(t) ==
  \E k \in 1..Len(tickArrays) :
     /\ tickArrays[k].loaded
     /\ tickArrayStartIndexes[k] <= t
     /\ t < tickArrayStartIndexes[k] + whirlpool.tickSpacing * TICK_ARRAY_SIZE

\* length of the longest prefix of the ten downward candidates that lie in
\* known buckets
LongestKnownDownwardPrefix ==
  Cardinality({k \in 0..(MaxSteps - 1) :
                 \A j \in 0..k :
                    InKnownBucket(LowerInitializableTickIndex - j * whirlpool.tickSpacing)})

\* C14: a downward iteration of the per-step simulator whose candidate is
\* Unknown ends the loop at once and adds no record; when the downward loop
\* ends, its records are exactly those of the longest prefix of candidates
\* lowerInit, lowerInit - tickSpacing, ... (at most 10) lying in known
\* buckets; every downward record ends on a multiple of tickSpacing.
C14_UnknownDownwardStop ==
  [][ /\ (pc = "ta_down"
            /\ ~InKnownBucket(LowerInitializableTickIndex - i * whirlpool.tickSpacing)) =>
            (pc' = "ta_return" /\ downwardTradableAmount' = downwardTradableAmount)
      /\ (pc' = "ta_return") =>
            /\ Len(downwardTradableAmount') = LongestKnownDownwardPrefix
            /\ \A k \in 1..Len(downwardTradableAmount') :
                  downwardTradableAmount'[k].tickIndex
                     = LowerInitializableTickIndex - (k - 1) * whirlpool.tickSpacing
      /\ \A k \in 1..Len(downwardTradableAmount') :
            downwardTradableAmount'[k].tickIndex % whirlpool.tickSpacing = 0
      /\ \A k \in 1..Len(tradableAmounts'.downward) :
            /\ tradableAmounts'.downward[k].tickIndex % whirlpool.tickSpacing = 0
            /\ InKnownBucket(tradableAmounts'.downward[k].tickIndex)
    ]_vars

\* the lower initializable tick is the first tick of the current array and
\* the array below was not fetched: one downward record, ten upward ones
C14_Witness ==
  /\ pc = "done"
  /\ ~tradableAmounts.error
  /\ Len(tickArrays) >= 3
  /\ Len(tradableAmounts.downward) = 1
  /\ tradableAmounts.downward[1].tickIndex = LowerInitializableTickIndex
  /\ ~InKnownBucket(LowerInitializableTickIndex - whirlpool.tickSpacing)
  /\ Len(tradableAmounts.upward) = MaxSteps

\* liquidityNet stored for tick t in the fetched arrays (zero if none)
RawNet(t) == SumNets({x \in InitializedTicks : x[1] = t})

\* the working state at the head of iteration i of each loop: position and
\* price of the previous candidate (of the pool for i = 0), and the pool's
\* liquidity plus (upward) or minus (downward) the liquidityNet of the
\* candidates crossed so far
WorkingStateAtLoopHead ==
  /\ pc \in {"ta_up", "tata_up"} =>
        /\ tickIndex = UpStartTick(i)
        /\ sqrtPrice = UpStartSqrtPrice(i)
        /\ liquidity = LiquidityArrivingUp(UpperInitializableTickIndex
                                             + i * whirlpool.tickSpacing)
  /\ pc \in {"ta_down", "tata_down"} =>
        /\ tickIndex = (IF i = 0 THEN whirlpool.tickCurrentIndex
                        ELSE LowerInitializableTickIndex - (i - 1) * whirlpool.tickSpacing)
        /\ sqrtPrice = DownStartSqrtPrice(i)
        /\ liquidity = LiquidityArrivingDown(LowerInitializableTickIndex
                                               - i * whirlpool.tickSpacing)
  /\ (pc \in {"ta_up", "tata_up", "ta_down", "tata_down"} /\ i = 0) =>
        /\ tickIndex = whirlpool.tickCurrentIndex
        /\ sqrtPrice = whirlpool.sqrtPrice
        /\ liquidity = whirlpool.liquidity

\* C15: in both simulators a step's amounts are the deltas at the working
\* liquidity held before the step, and the candidate's liquidityNet is
\* added (upward) or subtracted (downward) only after; so at the head of
\* iteration i the working liquidity is the pool's plus or minus the
\* liquidityNet of the candidates crossed, and each direction starts again
\* from the pool's tickCurrentIndex, sqrtPrice and liquidity.
C15_LiquidityAppliedAfterStep ==
  [][ /\ WorkingStateAtLoopHead'
      /\ (pc = "ta_up" /\ Len(upwardTradableAmount') = Len(upwardTradableAmount) + 1) =>
            LET r == upwardTradableAmount'[Len(upwardTradableAmount')]
                target == TickIndexToSqrtPriceX64(r.tickIndex)
            IN  /\ r.amountA = GetAmountDeltaA(sqrtPrice, target, liquidity, FALSE)
                /\ r.amountB = GetAmountDeltaB(sqrtPrice, target, liquidity, TRUE)
                /\ liquidity' # liquidity => liquidity' = liquidity + RawNet(r.tickIndex)
      /\ (pc = "ta_down" /\ Len(downwardTradableAmount') = Len(downwardTradableAmount) + 1) =>
            LET r == downwardTradableAmount'[Len(downwardTradableAmount')]
                target == TickIndexToSqrtPriceX64(r.tickIndex)
            IN  /\ r.amountA = GetAmountDeltaA(sqrtPrice, target, liquidity, TRUE)
                /\ r.amountB = GetAmountDeltaB(sqrtPrice, target, liquidity, FALSE)
                /\ liquidity' = liquidity - RawNet(r.tickIndex)
      /\ (pc = "tata_up" /\ i' = i + 1) =>
            /\ SumSeq(upwardAmountA') - SumSeq(upwardAmountA)
                  = GetAmountDeltaA(sqrtPrice, sqrtPrice', liquidity, FALSE)
            /\ SumSeq(upwardAmountB') - SumSeq(upwardAmountB)
                  = GetAmountDeltaB(sqrtPrice, sqrtPrice', liquidity, TRUE)
            /\ liquidity' = liquidity + RawNet(tickIndex')
      /\ (pc = "tata_down" /\ i' = i + 1) =>
            /\ SumSeq(downwardAmountA') - SumSeq(downwardAmountA)
                  = GetAmountDeltaA(sqrtPrice, sqrtPrice', liquidity, TRUE)
            /\ SumSeq(downwardAmountB') - SumSeq(downwardAmountB)
                  = GetAmountDeltaB(sqrtPrice, sqrtPrice', liquidity, FALSE)
            /\ liquidity' = liquidity - RawNet(tickIndex')
    ]_vars

\* the downward loop of the per-step simulator ended after crossing two
\* initialized ticks of negative liquidityNet, the upward loop having run
\* its ten steps before
C15_Witness ==
  /\ pc = "ta_return"
  /\ Len(upwardTradableAmount) = MaxSteps
  /\ Len(downwardTradableAmount) = MaxSteps
  /\ Cardinality(InitializedTicks) = 2
  /\ \A x \in InitializedTicks : x[1] <= LowerInitializableTickIndex /\ x[2] < 0
  /\ liquidity = whirlpool.liquidity - SumNets(InitializedTicks)
  /\ liquidity > whirlpool.liquidity

\* q is numerator / denominator rounded down, respectively up
IsRoundedDown(q, numerator, denominator) ==
  q * denominator <= numerator /\ numerator < (q + 1) * denominator
IsRoundedUp(q, numerator, denominator) ==
  (q - 1) * denominator < numerator /\ numerator <= q * denominator

\* amounts a and b are those of a step between two square-root prices at
\* liquidity liq, a rounded as aUp says and b the other way
StepRounding(a, b, fromSqrtPrice, toSqrtPrice, liq, aUp) ==
  LET lower == Min2(fromSqrtPrice, toSqrtPrice)
      upper == Max2(fromSqrtPrice, toSqrtPrice)
      numerator == liq * (upper - lower)
      unit == TickIndexToSqrtPriceX64(0)
  IN  IF aUp
      THEN IsRoundedUp(a, numerator, lower) /\ IsRoundedDown(b, numerator, unit)
      ELSE IsRoundedDown(a, numerator, lower) /\ IsRoundedUp(b, numerator, unit)

\* C16: every upward step of either simulator, the capped one included,
\* yields amountA rounded down and amountB rounded up; every downward step
\* yields amountA rounded up and amountB rounded down.
C16_RoundingConvention ==
  [][ /\ (pc = "ta_up" /\ Len(upwardTradableAmount') = Len(upwardTradableAmount) + 1) =>
            LET r == upwardTradableAmount'[Len(upwardTradableAmount')]
            IN  StepRounding(r.amountA, r.amountB, sqrtPrice,
                             TickIndexToSqrtPriceX64(r.tickIndex), liquidity, FALSE)
      /\ (pc = "ta_down" /\ Len(downwardTradableAmount') = Len(downwardTradableAmount) + 1) =>
            LET r == downwardTradableAmount'[Len(downwardTradableAmount')]
            IN  StepRounding(r.amountA, r.amountB, sqrtPrice,
                             TickIndexToSqrtPriceX64(r.tickIndex), liquidity, TRUE)
      /\ (pc = "tata_up" /\ i' = i + 1) =>
            StepRounding(SumSeq(upwardAmountA') - SumSeq(upwardAmountA),
                         SumSeq(upwardAmountB') - SumSeq(upwardAmountB),
                         sqrtPrice, sqrtPrice', liquidity, FALSE)
      /\ (pc = "tata_down" /\ i' = i + 1) =>
            StepRounding(SumSeq(downwardAmountA') - SumSeq(downwardAmountA),
                         SumSeq(downwardAmountB') - SumSeq(downwardAmountB),
                         sqrtPrice, sqrtPrice', liquidity, TRUE)
    ]_vars

\* the second step of each direction was priced at a liquidity for which
\* rounding up and rounding down differ, for amountA and for amountB
C16_Witness ==
  /\ pc = "done"
  /\ ~tradableAmounts.error
  /\ Len(tradableAmounts.upward) >= 2
  /\ Len(tradableAmounts.downward) >= 2
  /\ LET up == tradableAmounts.upward[2]
         down == tradableAmounts.downward[2]
         unit == TickIndexToSqrtPriceX64(0)
         upLiquidity == LiquidityArrivingUp(up.tickIndex)
         downLiquidity == LiquidityArrivingDown(down.tickIndex)
     IN  /\ up.amountA * TickIndexToSqrtPriceX64(tradableAmounts.upward[1].tickIndex)
               < upLiquidity * (up.tickIndex - tradableAmounts.upward[1].tickIndex)
         /\ down.amountB * unit
               < downLiquidity * (tradableAmounts.downward[1].tickIndex - down.tickIndex)
         /\ down.amountA * TickIndexToSqrtPriceX64(down.tickIndex)
               > downLiquidity * (tradableAmounts.downward[1].tickIndex - down.tickIndex)

\* the fetched arrays with every missing one replaced by a fetched array of
\* the same range whose ticks all have liquidityNet 0
ZeroFilled ==
  [k \in 1..Len(tickArrays) |->
     IF tickArrays[k].loaded THEN tickArrays[k]
     ELSE [loaded |-> TRUE, startTickIndex |-> tickArrayStartIndexes[k],
           ticks |-> << >>]]

\* the initialized ticks of the arrays given, as <<tickIndex, liquidityNet>>
InitializedTicksOf(arrays) ==
  UNION {{<<arrays[k].startTickIndex + j * whirlpool.tickSpacing, arrays[k].ticks[j]>>
            : j \in DOMAIN arrays[k].ticks}
           : k \in {k \in 1..Len(arrays) : arrays[k].loaded}}

\* what the per-bucket traversals accumulate over the arrays given: for
\* each array of the sub-window the <<amountA, amountB>> summed over the
\* candidates of its range, each priced at the pool's liquidity plus
\* (minus) the liquidityNet the arrays hold for the candidates before it
UpwardAmountsOver(arrays) ==
  LET nets == InitializedTicksOf(arrays)
      deltas == [k \in 1..UpwardCandidateCount |->
                   LET t == UpperInitializableTickIndex + (k - 1) * whirlpool.tickSpacing
                       arriving == whirlpool.liquidity
                                     + SumNets({x \in nets :
                                                  UpperInitializableTickIndex <= x[1]
                                                     /\ x[1] < t})
                       target == TickIndexToSqrtPriceX64(t)
                   IN  <<UpwardBucketOf(t),
                         GetAmountDeltaA(UpStartSqrtPrice(k - 1), target, arriving, FALSE),
                         GetAmountDeltaB(UpStartSqrtPrice(k - 1), target, arriving, TRUE)>>]
  IN  [j \in 1..UpwardLength |->
         <<BucketSum(deltas, j - 1, 2), BucketSum(deltas, j - 1, 3)>>]

DownwardAmountsOver(arrays) ==
  LET nets == InitializedTicksOf(arrays)
      deltas == [k \in 1..DownwardCandidateCount |->
                   LET t == LowerInitializableTickIndex - (k - 1) * whirlpool.tickSpacing
                       arriving == whirlpool.liquidity
                                     - SumNets({x \in nets :
                                                  t < x[1]
                                                     /\ x[1] <= LowerInitializableTickIndex})
                       target == TickIndexToSqrtPriceX64(t)
                   IN  <<DownwardBucketOf(t),
                         GetAmountDeltaA(DownStartSqrtPrice(k - 1), target, arriving, TRUE),
                         GetAmountDeltaB(DownStartSqrtPrice(k - 1), target, arriving, FALSE)>>]
  IN  [j \in 1..DownwardLength |->
         <<BucketSum(deltas, j - 1, 2), BucketSum(deltas, j - 1, 3)>>]

\* the <<amountA, amountB>> of a sequence of bucket records
BucketAmounts(records) ==
  [j \in 1..Len(records) |-> <<records[j].amountA, records[j].amountB>>]

\* C17: in the per-bucket simulator a candidate in an array that was not
\* fetched is priced like any other, does not end the traversal and leaves
\* the working liquidity as it is; and the amountA / amountB of every
\* record returned are the amounts the traversals accumulate over the
\* window with each missing array replaced by a fetched array of
\* liquidityNet 0.
C17_ZeroFillPolicy ==
  [][ /\ (pc = "tata_up" /\ TickArrayUpwardCandidate(i) <= UpwardLastTickIndex
            /\ ~InKnownBucket(TickArrayUpwardCandidate(i)) /\ pc' # "tata_catch") =>
            (pc' = "tata_up" /\ i' = i + 1 /\ liquidity' = liquidity)
      /\ (pc = "tata_down" /\ TickArrayDownwardCandidate(i) >= DownwardLastTickIndex
            /\ ~InKnownBucket(TickArrayDownwardCandidate(i)) /\ pc' # "tata_catch") =>
            (pc' = "tata_down" /\ i' = i + 1 /\ liquidity' = liquidity)
      /\ (pc = "tata_return") =>
            /\ BucketAmounts(tickArrayTradableAmounts'.upward) = UpwardAmountsOver(ZeroFilled)
            /\ BucketAmounts(tickArrayTradableAmounts'.downward) = DownwardAmountsOver(ZeroFilled)
    ]_vars

\* the per-bucket simulator returned amounts for an array that was not
\* fetched, after crossing an initialized tick of the current array
C17_Witness ==
  /\ pc = "done"
  /\ ~tickArrayTradableAmounts.error
  /\ Len(tickArrayTradableAmounts.upward) = 2
  /\ tickArrayTradableAmounts.upward[1].tickArrayData.loaded
  /\ ~tickArrayTradableAmounts.upward[2].tickArrayData.loaded
  /\ tickArrayTradableAmounts.upward[2].amountA > 0
  /\ \E x \in InitializedTicks :
        /\ x[1] >= UpperInitializableTickIndex
        /\ x[1] < tickArrayTradableAmounts.upward[2].tickArrayStartIndex
        /\ x[2] > 0

\* the bounds of the two traversals read off the window: the end of its
\* last array, at most MAX_TICK_INDEX, and the start of its first array, at
\* least MIN_TICK_INDEX
UpwardBound ==
  Min2(MAX_TICK_INDEX,
       tickArrayStartIndexes[Len(tickArrayStartIndexes)]
          + whirlpool.tickSpacing * TICK_ARRAY_SIZE)
DownwardBound == Max2(MIN_TICK_INDEX, tickArrayStartIndexes[1])

\* how many of the candidates first, first + step, ... (step > 0) or
\* first, first + step, ... (step < 0) do not pass the bound
CandidatesUpTo(first, step, bound) ==
  IF first > bound THEN 0 ELSE (bound - first) \div step + 1
CandidatesDownTo(first, step, bound) ==
  IF first < bound THEN 0 ELSE (first - bound) \div step + 1

\* C18: the upward traversal of the per-bucket simulator prices the
\* candidates upperInit + i * tickSpacing in order, and when it ends
\* without exception it has priced exactly those that are <= min(
\* MAX_TICK_INDEX, end of the window's last array); the downward traversal
\* likewise prices lowerInit - i * tickSpacing down to max(MIN_TICK_INDEX,
\* start of the window's first array); no tick outside
\* [MIN_TICK_INDEX, MAX_TICK_INDEX] is priced.
C18_TraversalBounds ==
  [][ /\ (pc = "tata_up" /\ i' = i + 1) =>
            /\ tickIndex' = UpperInitializableTickIndex + i * whirlpool.tickSpacing
            /\ tickIndex' <= UpwardBound
            /\ MIN_TICK_INDEX <= tickIndex' /\ tickIndex' <= MAX_TICK_INDEX
      /\ (pc = "tata_up" /\ pc' = "tata_up_end") =>
            i = CandidatesUpTo(UpperInitializableTickIndex, whirlpool.tickSpacing,
                               UpwardBound)
      /\ (pc = "tata_down" /\ i' = i + 1) =>
            /\ tickIndex' = LowerInitializableTickIndex - i * whirlpool.tickSpacing
            /\ tickIndex' >= DownwardBound
            /\ MIN_TICK_INDEX <= tickIndex' /\ tickIndex' <= MAX_TICK_INDEX
      /\ (pc = "tata_down" /\ pc' = "tata_return") =>
            i = CandidatesDownTo(LowerInitializableTickIndex, whirlpool.tickSpacing,
                                 DownwardBound)
    ]_vars

\* the upward traversal ended at the last initializable tick under
\* MAX_TICK_INDEX, inside the window's last array
C18_Witness ==
  /\ pc = "tata_up_end"
  /\ i = MaxSteps
  /\ tickIndex <= MAX_TICK_INDEX
  /\ MAX_TICK_INDEX < tickIndex + whirlpool.tickSpacing
  /\ MAX_TICK_INDEX < tickArrayStartIndexes[Len(tickArrayStartIndexes)]
                         + whirlpool.tickSpacing * TICK_ARRAY_SIZE
  /\ upwardAmountA[1] > 0

\* start index of the window entry k places above (below, k < 0) the array
\* that holds tickCurrentIndex
StartOfNeighbour(k) == tickArrayStartIndexes[WindowPositionOfCurrent + k]

\* every slot of the new accumulator but the one named is as before
OnlySlotChanged(before, after, slot) ==
  /\ Len(after) = Len(before)
  /\ \A j \in 1..Len(before) : j # slot => after[j] = before[j]

\* C19: whenever a traversal of the per-bucket simulator accumulates a
\* step's delta, the accumulator index is within [0, sub-window length - 1]
\* and only that slot changes; the slot of an upward candidate t is that of
\* the array with start < t <= start + ticksInArray, the slot of a downward
\* candidate t that of the array with start <= t < start + ticksInArray;
\* no traversal fails for an index out of range (an exception implies a
\* negative working liquidity).
C19_BucketAttribution ==
  [][ /\ (pc = "tata_up" /\ i' = i + 1) =>
            /\ 0 <= upwardIndex /\ upwardIndex <= Len(upwardAmountA) - 1
            /\ Len(upwardAmountA)
                  = Len(tickArrayStartIndexes) - WindowPositionOfCurrent + 1
            /\ StartOfNeighbour(upwardIndex) < tickIndex'
            /\ tickIndex' <= StartOfNeighbour(upwardIndex)
                                + whirlpool.tickSpacing * TICK_ARRAY_SIZE
            /\ OnlySlotChanged(upwardAmountA, upwardAmountA', upwardIndex + 1)
            /\ OnlySlotChanged(upwardAmountB, upwardAmountB', upwardIndex + 1)
      /\ (pc = "tata_down" /\ i' = i + 1) =>
            /\ 0 <= downwardIndex /\ downwardIndex <= Len(downwardAmountA) - 1
            /\ Len(downwardAmountA) = WindowPositionOfCurrent
            /\ StartOfNeighbour(-downwardIndex) <= tickIndex'
            /\ tickIndex' < StartOfNeighbour(-downwardIndex)
                               + whirlpool.tickSpacing * TICK_ARRAY_SIZE
            /\ OnlySlotChanged(downwardAmountA, downwardAmountA', downwardIndex + 1)
            /\ OnlySlotChanged(downwardAmountB, downwardAmountB', downwardIndex + 1)
      /\ (pc \in {"tata_up", "tata_down"} /\ pc' = "tata_catch") => liquidity < 0
    ]_vars

\* tickCurrentIndex is the first tick of its array: the downward traversal
\* put the zero-width step to that tick in the current array's slot, went
\* through two arrays of negative ticks and ended past the last slot
C19_Witness ==
  /\ pc = "tata_return"
  /\ whirlpool.tickCurrentIndex = CurrentTickArrayStartIndex
  /\ Len(downwardAmountA) = 3
  /\ downwardIndex = 3
  /\ tickIndex < 0
  /\ downwardAmountA[1] = 0
  /\ downwardAmountA[2] > 0
  /\ downwardAmountA[3] > 0
  /\ upwardIndex = Len(upwardAmountA)

\* initializable ticks at which getTick is probed: the first, the second
\* and the last tick of every array of the window, of the array under the
\* window and of the array over it
ProbeTicks ==
  LET ticksInArray == whirlpool.tickSpacing * TICK_ARRAY_SIZE
      starts == {tickArrayStartIndexes[k] : k \in 1..Len(tickArrayStartIndexes)}
                  \cup {tickArrayStartIndexes[1] - ticksInArray,
                        tickArrayStartIndexes[Len(tickArrayStartIndexes)] + ticksInArray}
  IN  {start + d * whirlpool.tickSpacing : start \in starts, d \in {0, 1, TICK_ARRAY_SIZE - 1}}

Reversed(s) == [k \in 1..Len(s) |-> s[Len(s) + 1 - k]]
Rotated(s) == IF s = << >> THEN s ELSE Append(Tail(s), Head(s))

\* getTick(t) over the list given is undefined exactly when no non-null
\* entry of the list has t in its range [start, start + ticksInArray), and
\* otherwise is the tick that entry stores for t
GetTickMatchesRanges(t, arrays) ==
  LET found == GetTick(t, whirlpool.tickSpacing, arrays)
      holders == {k \in 1..Len(arrays) :
                    /\ arrays[k].loaded
                    /\ arrays[k].startTickIndex <= t
                    /\ t < arrays[k].startTickIndex
                             + whirlpool.tickSpacing * TICK_ARRAY_SIZE}
  IN  /\ found.defined <=> holders # {}
      /\ found.defined =>
            found.liquidityNet = SumNets({x \in InitializedTicksOf(arrays) : x[1] = t})

\* C20: getTick returns undefined if and only if no non-null array of the
\* list starts at the floor-aligned start of the tick, that is, holds the
\* tick in its range, for negative ticks too; null entries are passed over;
\* the result is the same for the list reversed or rotated.  Checked at the
\* probe ticks of every window and at every candidate the simulators look up.
C20_GetTickUnknownIff ==
  /\ (pc = "start") =>
        \A t \in ProbeTicks :
           /\ GetTickMatchesRanges(t, tickArrays)
           /\ GetTick(t, whirlpool.tickSpacing, Reversed(tickArrays))
                 = GetTick(t, whirlpool.tickSpacing, tickArrays)
           /\ GetTick(t, whirlpool.tickSpacing, Rotated(tickArrays))
                 = GetTick(t, whirlpool.tickSpacing, tickArrays)
  /\ (pc \in {"ta_up", "tata_up"}) =>
        GetTickMatchesRanges(UpperInitializableTickIndex + i * whirlpool.tickSpacing,
                             tickArrays)
  /\ (pc \in {"ta_down", "tata_down"}) =>
        GetTickMatchesRanges(LowerInitializableTickIndex - i * whirlpool.tickSpacing,
                             tickArrays)

\* a pool at a negative tick whose window has a null entry: the ten
\* downward lookups at negative ticks succeeded in the current array, the
\* first upward lookup, in the array starting at 0, returned undefined
C20_Witness ==
  /\ pc = "done"
  /\ ~tradableAmounts.error
  /\ whirlpool.tickCurrentIndex = -1
  /\ Len(tickArrays) = 3
  /\ tickArrays[2].loaded /\ tickArrays[2].startTickIndex < 0
  /\ ~tickArrays[3].loaded
  /\ Len(tradableAmounts.downward) = MaxSteps
  /\ tradableAmounts.upward = << >>

\* C21: while the per-bucket simulator runs, the start index it computes
\* for the current array is the start index getStartTickIndex gives for
\* tickCurrentIndex: the multiple of ticksInArray whose range holds
\* tickCurrentIndex, for negative ticks too; and the array the simulator
\* takes as current is the one getTick searches for the lower initializable
\* tick of tickCurrentIndex.
C21_AlignmentAgrees ==
  (pc \in {"tata_up", "tata_down", "tata_return", "tata_catch"}) =>
     /\ CurrentTickArrayStartIndex
          = GetStartTickIndex(whirlpool.tickCurrentIndex, whirlpool.tickSpacing, 0)
     /\ CurrentTickArrayStartIndex % TicksInArray = 0
     /\ CurrentTickArrayStartIndex <= whirlpool.tickCurrentIndex
     /\ whirlpool.tickCurrentIndex < CurrentTickArrayStartIndex + TicksInArray
     /\ tickArrayStartIndexes[CurrentTickArrayIndex + 1]
          = GetStartTickIndex(LowerInitializableTickIndex, whirlpool.tickSpacing, 0)
     /\ tickArrays[CurrentTickArrayIndex + 1].loaded
          <=> GetTick(LowerInitializableTickIndex, whirlpool.tickSpacing,
                      tickArrays).defined

\* a pool at a negative tick that is not on an array boundary, with arrays
\* on both sides: the downward traversal has accumulated in the current
\* array
C21_Witness ==
  /\ pc = "tata_down"
  /\ whirlpool.tickCurrentIndex < 0
  /\ whirlpool.tickCurrentIndex % TicksInArray # 0
  /\ CurrentTickArrayIndex >= 1
  /\ Len(tickArrays) > CurrentTickArrayIndex + 1
  /\ i >= 1
  /\ downwardIndex = 0
  /\ downwardAmountA[1] > 0

\* C22: the window getWhirlpoolInfo hands to the per-bucket simulator has
\* three sequences of one length between 1 and 21, its start indexes rise
\* by ticksInArray from one entry to the next, the array of tickCurrentIndex
\* is entry c of it with c a whole number in 0..length-1, and an array asked
\* for is missing only under the first entry when it lies wholly at or
\* under MIN_TICK_INDEX, or over the last entry when it starts over
\* MAX_TICK_INDEX.
C22_WindowWellFormed ==
  LET n == Len(tickArrayStartIndexes)
      c == CurrentTickArrayIndex
  IN  /\ Len(tickArrayPubkeys) = n /\ Len(tickArrays) = n
      /\ 1 <= n /\ n <= 2 * NEIGHBORING_TICK_ARRAY_NUM + 1
      /\ \A k \in 1..(n - 1) :
            tickArrayStartIndexes[k + 1] = tickArrayStartIndexes[k] + TicksInArray
      /\ \A k \in 1..n :
            /\ tickArrayPubkeys[k] = GetTickArrayPda(tickArrayStartIndexes[k])
            /\ tickArrays[k].loaded =>
                  tickArrays[k].startTickIndex = tickArrayStartIndexes[k]
      /\ (CurrentTickArrayStartIndex - tickArrayStartIndexes[1]) % TicksInArray = 0
      /\ 0 <= c /\ c < n
      /\ tickArrayStartIndexes[c + 1] <= whirlpool.tickCurrentIndex
      /\ whirlpool.tickCurrentIndex < tickArrayStartIndexes[c + 1] + TicksInArray
      /\ c = NEIGHBORING_TICK_ARRAY_NUM \/ tickArrayStartIndexes[1] <= MIN_TICK_INDEX
      /\ n - 1 - c = NEIGHBORING_TICK_ARRAY_NUM
            \/ tickArrayStartIndexes[n] + TicksInArray > MAX_TICK_INDEX
      /\ (pc = "done" /\ ~tickArrayTradableAmounts.error) =>
            /\ Len(tickArrayTradableAmounts.upward) = n - c
            /\ Len(tickArrayTradableAmounts.downward) = c + 1

\* a pool near MIN_TICK_INDEX whose window lost the arrays under the one
\* holding MIN_TICK_INDEX and kept the ten over the current one: the
\* per-bucket simulator has returned its records
C22_Witness ==
  /\ pc = "done"
  /\ ~tickArrayTradableAmounts.error
  /\ whirlpool.tickSpacing = 64
  /\ whirlpool.tickCurrentIndex < 0
  /\ tickArrayStartIndexes[1] <= MIN_TICK_INDEX
  /\ Len(tickArrayStartIndexes) = NEIGHBORING_TICK_ARRAY_NUM + 1
  /\ Len(tickArrayTradableAmounts.upward) = NEIGHBORING_TICK_ARRAY_NUM + 1
  /\ Len(tickArrayTradableAmounts.downward) = 1

IsInitializable(t) == t % whirlpool.tickSpacing = 0

\* C23: the tick every iteration of either simulator looks up is a multiple
\* of tickSpacing.  An iteration that goes on to another leaves the tick it
\* looked up as the working tick; the upward per-step iteration that
\* records a tick one under the one it looked up is the last of its loop.
C23_LookupsInitializable ==
  [][ /\ (pc = "ta_up" /\ pc' # "ta_catch") =>
            /\ IsInitializable(UpwardCandidate(i))
            /\ (pc' = "ta_up") =>
                  /\ tickIndex' = UpwardCandidate(i)
                  /\ upwardTradableAmount'[Len(upwardTradableAmount')].tickIndex
                        = UpwardCandidate(i)
            /\ (Len(upwardTradableAmount') > Len(upwardTradableAmount)
                  /\ upwardTradableAmount'[Len(upwardTradableAmount')].tickIndex
                        # UpwardCandidate(i)) =>
                  /\ upwardTradableAmount'[Len(upwardTradableAmount')].tickIndex
                        = UpwardCandidate(i) - 1
                  /\ pc' = "ta_up_end"
                  /\ tickIndex' = tickIndex
      /\ (pc = "ta_down" /\ pc' # "ta_catch") =>
            /\ IsInitializable(DownwardCandidate(i))
            /\ (Len(downwardTradableAmount') > Len(downwardTradableAmount)) =>
                  /\ tickIndex' = DownwardCandidate(i)
                  /\ downwardTradableAmount'[Len(downwardTradableAmount')].tickIndex
                        = DownwardCandidate(i)
      /\ (pc = "tata_up" /\ i' = i + 1) =>
            /\ IsInitializable(TickArrayUpwardCandidate(i))
            /\ tickIndex' = TickArrayUpwardCandidate(i)
      /\ (pc = "tata_down" /\ i' = i + 1) =>
            /\ IsInitializable(TickArrayDownwardCandidate(i))
            /\ tickIndex' = TickArrayDownwardCandidate(i)
    ]_vars

\* a pool of tickSpacing 64 at a tick off the spacing: the upward loop
\* looked up initializable ticks, met an unknown one and recorded the tick
\* one under it, which is not initializable, as its last record
C23_Witness ==
  /\ pc = "done"
  /\ ~tradableAmounts.error /\ ~tickArrayTradableAmounts.error
  /\ whirlpool.tickSpacing = 64
  /\ ~IsInitializable(whirlpool.tickCurrentIndex)
  /\ Len(tradableAmounts.upward) >= 2
  /\ ~IsInitializable(tradableAmounts.upward[Len(tradableAmounts.upward)].tickIndex)
  /\ \A k \in 1..(Len(tradableAmounts.upward) - 1) :
        IsInitializable(tradableAmounts.upward[k].tickIndex)
  /\ Len(tradableAmounts.downward) = MaxSteps

====
